---- MODULE Spec2Model ----
(***************************************************************************)
(* terminus-pty: the session pool, the per-session fan-out between one PTY *)
(* and its WebSocket clients, and the two pool sweepers.                   *)
(*                                                                         *)
(* A session object is identified with its pool id.  The PTYs, termination *)
(* channels (done) and close guards (closeOnce) a session has owned are    *)
(* numbered by generation: generation 0 is made by NewSession, generation  *)
(* g+1 by the g+1-th ReplacePTY.  A critical section under one lock is one *)
(* step; code that runs without a lock between two such sections is split  *)
(* into steps so that other tasks interleave with it.                      *)
(***************************************************************************)
EXTENDS Integers, Sequences, FiniteSets, TLC

\* ---------------------------------------------------------------- bounds
MaxSessions == 1
MaxConns == 2
MaxReattach == 1
MaxChunks == 2
QueueCap == 1
MaxTime == 2
SessionTimeout == 1
MaxInactive == 1
MaxDim == 2
MaxResizers == 2

Ids == 1..MaxSessions
Conns == 1..MaxConns
Gens == 0..MaxReattach
Times == 0..MaxTime
Dims == 1..MaxDim
Resizers == 1..MaxResizers
Nil == -1
Tasks == {"cleanup", "tmuxCleanup", "remove", "closeAll", "create",
          "connect", "takeover", "reader", "pump"}
Locks == {"mu", "clientsMu", "closeOnce"}
NoTask == "none"
NoClient == 0

VARIABLES
    \* configuration and clock
    TmuxEnabled,        \* PoolConfig.TmuxEnabled
    now,                \* time.Now()
    \* Pool
    sessions,           \* Pool.sessions: the ids mapped
    mu,                 \* Pool.mu: "free", "cleanup" (write-locked) or "tmux" (read-locked)
    crpc,               \* Pool.Create per id: "none", "spawned", "made", "done", "failed"
    \* Session
    clients,            \* Session.clients: the connections in the map (clientID of c is c)
    connectedClientId,  \* Session.connectedClientId, NoClient for ""
    DisconnectedAt,     \* Session.DisconnectedAt, Nil for nil
    LastActivityAt,     \* Session.LastActivityAt
    gen,                \* generation of Session.PTY, Session.done and Session.closeOnce
    doneClosed,         \* generations whose done channel is closed
    onceFired,          \* Session.closeOnce has run
    ptyState,           \* per generation: "none", "open", "closed"
    tmuxLive,           \* external tmux sessions that exist (named by session id)
    broadcast,          \* Session.broadcast: the queued chunks
    nextChunk,          \* number of the next chunk the PTY yields
    \* reader and pump tasks, per generation
    rpc,                \* readPTY: "none", "read", "exit"
    rpty,               \* the PTY generation a reader is blocked on
    ppc,                \* broadcastLoop: "none", "wait", "write", "exit"
    pwatch,             \* the done generation a waiting pump selects on
    pchunk,             \* the chunk a pump is broadcasting
    psnap,              \* broadcastToClients: the snapshot of clients
    ptodo,              \* snapshot entries not yet written to
    pfailed,            \* broadcastToClients: failed
    \* connections (Handler.connectSession)
    cpc,                \* "idle", "got", "loop", "done"
    csess,              \* the session Pool.Get resolved
    sock,               \* "open", "broken" (peer gone), "closed" (conn.Close ran)
    sent,               \* chunks written to the socket, in order
    \* Handler.takeoverSession
    kpc, ksess, disconnectedCount,
    \* Pool.ReattachTmux
    apc, asess,
    \* Pool.cleanup
    clpc,               \* "idle", "scan", "deref", "panic"
    clNow, clScan, clCur, toRemove,
    \* Pool.cleanupTmuxSessions
    tpc,                \* "idle", "listed", "scan", "kill", "drop"
    tNow, tList, killed, tCur,
    \* Session size and the REST handlers (getSession, updateSession, deleteSession)
    Cols, Rows,         \* Session.Cols, Session.Rows
    upc, usess,         \* updateSession: "idle", "got"; the session Pool.Get resolved
    reply,              \* the HTTP reply of the REST request being served
    absent,             \* observation: ids Pool.Remove was asked for after they had left the mapping
    \* lock-level view of one session (Pool.mu, Session.clientsMu, Session.closeOnce)
    lpc,                \* per task: 0 when idle, else the index of its next lock instruction
    lockW,              \* per lock: the task holding it for writing, NoTask when none
    lockR,              \* per lock: the tasks holding it for reading
    onceDone,           \* sync.Once.done of Session.closeOnce
    panicked,           \* a close of a closed done channel has panicked
    \* broadcastToClients, inside one client.WriteMessage
    pwriting,           \* per pump: the connection whose WriteMessage is in progress
    \* main, the shutdown sequence
    spc,                \* "serving", "cancelled", "closed" (CloseAll returned), "down"
    \* concurrent Session.Resize calls, statement by statement
    zpc,                \* per caller: "idle", "cols", "rows", "apply"
    zarg,               \* per caller: the session and the cols and rows it was called with
    win,                \* per session: the window size last set on the PTY (pty.Setsize)
    \* observations
    zeroSince,          \* since when a session has had no client (Nil while it has one)
    dropped             \* chunks the reader discarded

poolVars == <<sessions, mu, crpc>>
clientVars == <<clients, connectedClientId, DisconnectedAt, LastActivityAt, zeroSince>>
lifeVars == <<gen, doneClosed, onceFired, ptyState, tmuxLive>>
chunkVars == <<broadcast, nextChunk, dropped>>
readerVars == <<rpc, rpty>>
pumpVars == <<ppc, pwatch, pchunk, psnap, ptodo, pfailed>>
connVars == <<cpc, csess>>
takeoverVars == <<kpc, ksess, disconnectedCount>>
reattachVars == <<apc, asess>>
cleanupVars == <<clpc, clNow, clScan, clCur, toRemove>>
tmuxCleanupVars == <<tpc, tNow, tList, killed, tCur>>
restVars == <<Cols, Rows, upc, usess, reply, absent>>
lockVars == <<lpc, lockW, lockR, onceDone>>
resizeVars == <<zpc, zarg, win>>
fineVars == <<pwriting, spc, resizeVars>>

modelVars == <<TmuxEnabled, now, poolVars, clientVars, lifeVars, chunkVars, readerVars,
               pumpVars, connVars, sock, sent, takeoverVars, reattachVars, cleanupVars,
               tmuxCleanupVars, restVars, panicked, fineVars>>

vars == <<modelVars, lockVars>>

\* ---------------------------------------------------------------- helpers
Range(f) == {f[i] : i \in DOMAIN f}

\* Session.IsClosed: the current done channel is closed
IsClosed(s) == gen[s] \in doneClosed[s]

\* the PTY generation Session.PTY points to: ReplacePTY assigns the field before it
\* renews done and closeOnce
CurPTY(s) == IF apc = "swapped" /\ asess = s THEN gen[s] + 1 ELSE gen[s]

\* a Close or CloseWithTmux on a session of S would find the close guard armed and
\* the current done channel closed: close(s.done), the first statement of the
\* teardown, panics
Panics(S) == \E s \in S : ~onceFired[s] /\ gen[s] \in doneClosed[s]

\* Session.ClientCount
ClientCount(s) == Cardinality(clients[s])

\* Session.IsOccupied
IsOccupied(s) == connectedClientId[s] # NoClient

\* a Pool.Get that returns whatever is mapped, closed or not
GetMapped(s) == mu # "cleanup" /\ s \in sessions

\* Pool.Get: the session is mapped and not closed (taken under the read lock)
Get(s) == mu # "cleanup" /\ s \in sessions /\ ~IsClosed(s)

\* a nil dereference in Pool.cleanup and a close of a closed channel are run-time
\* panics: the process ends (or, in an HTTP handler, the request is abandoned with
\* Pool.mu still locked by Pool.Remove), and nothing runs after it; nothing runs
\* either once main has returned from the shutdown sequence
Running == clpc # "panic" /\ ~panicked /\ spc # "down"

\* tmux.SessionExists
SessionExists(s) == s \in tmuxLive

\* no REST request is being served
NoReply == [op |-> "none", id |-> 1, code |-> 0]

\* tmux.GetSessionClientCount: the attach processes still running
GetSessionClientCount(s) ==
    IF ~SessionExists(s) THEN -1
    ELSE Cardinality({g \in Gens : ptyState[s][g] = "open"})

\* ---------------------------------------------------------------- initial state
Init ==
    /\ TmuxEnabled \in BOOLEAN
    /\ now = 0
    /\ sessions = {}
    /\ mu = "free"
    /\ crpc = [s \in Ids |-> "none"]
    /\ clients = [s \in Ids |-> {}]
    /\ connectedClientId = [s \in Ids |-> NoClient]
    /\ DisconnectedAt = [s \in Ids |-> Nil]
    /\ LastActivityAt = [s \in Ids |-> 0]
    /\ gen = [s \in Ids |-> 0]
    /\ doneClosed = [s \in Ids |-> {}]
    /\ onceFired = [s \in Ids |-> FALSE]
    /\ ptyState = [s \in Ids |-> [g \in Gens |-> "none"]]
    /\ tmuxLive = {}
    /\ broadcast = [s \in Ids |-> <<>>]
    /\ nextChunk = [s \in Ids |-> 1]
    /\ rpc = [s \in Ids |-> [g \in Gens |-> "none"]]
    /\ rpty = [s \in Ids |-> [g \in Gens |-> g]]
    /\ ppc = [s \in Ids |-> [g \in Gens |-> "none"]]
    /\ pwatch = [s \in Ids |-> [g \in Gens |-> g]]
    /\ pchunk = [s \in Ids |-> [g \in Gens |-> 0]]
    /\ psnap = [s \in Ids |-> [g \in Gens |-> {}]]
    /\ ptodo = [s \in Ids |-> [g \in Gens |-> {}]]
    /\ pfailed = [s \in Ids |-> [g \in Gens |-> {}]]
    /\ cpc = [c \in Conns |-> "idle"]
    /\ csess = [c \in Conns |-> 1]
    /\ sock = [c \in Conns |-> "open"]
    /\ sent = [c \in Conns |-> <<>>]
    /\ kpc = "idle" /\ ksess = 1 /\ disconnectedCount = Nil
    /\ apc = "idle" /\ asess = 1
    /\ clpc = "idle" /\ clNow = 0 /\ clScan = {} /\ clCur = 1 /\ toRemove = {}
    /\ tpc = "idle" /\ tNow = 0 /\ tList = {} /\ killed = {} /\ tCur = 1
    /\ zeroSince = [s \in Ids |-> Nil]
    /\ dropped = [s \in Ids |-> {}]
    /\ Cols = [s \in Ids |-> 1]
    /\ Rows = [s \in Ids |-> 1]
    /\ upc = "idle" /\ usess = 1
    /\ reply = NoReply
    /\ absent = {}
    /\ lpc = [t \in Tasks |-> 0]
    /\ lockW = [l \in Locks |-> NoTask]
    /\ lockR = [l \in Locks |-> {}]
    /\ onceDone = FALSE
    /\ panicked = FALSE
    /\ pwriting = [s \in Ids |-> [g \in Gens |-> NoClient]]
    /\ spc = "serving"
    /\ zpc = [r \in Resizers |-> "idle"]
    /\ zarg = [r \in Resizers |-> [sess |-> 1, cols |-> 1, rows |-> 1]]
    /\ win = [s \in Ids |-> [cols |-> 1, rows |-> 1]]

\* ---------------------------------------------------------------- Session
\* Session.AddClient
AddClient(s, c) ==
    /\ clients' = [clients EXCEPT ![s] = @ \cup {c}]
    /\ connectedClientId' = [connectedClientId EXCEPT ![s] = c]
    /\ DisconnectedAt' = [DisconnectedAt EXCEPT ![s] = Nil]
    /\ LastActivityAt' = [LastActivityAt EXCEPT ![s] = now]
    /\ zeroSince' = [zeroSince EXCEPT ![s] = Nil]

\* a RemoveClient that leaves connectedClientId alone
RemoveClientKeepsId(s, c) ==
    LET left == clients[s] \ {c}
    IN  /\ clients' = [clients EXCEPT ![s] = left]
        /\ DisconnectedAt' = [DisconnectedAt EXCEPT ![s] = IF left = {} THEN now ELSE @]
        /\ zeroSince' = [zeroSince EXCEPT ![s] =
                            IF left = {} /\ clients[s] # {} THEN now ELSE @]
        /\ UNCHANGED <<connectedClientId, LastActivityAt>>

\* Session.RemoveClient
RemoveClient(s, c) ==
    LET clientID == IF c \in clients[s] THEN c ELSE NoClient
        left == clients[s] \ {c}
    IN  /\ clients' = [clients EXCEPT ![s] = left]
        /\ connectedClientId' =
              [connectedClientId EXCEPT ![s] = IF @ = clientID THEN NoClient ELSE @]
        /\ DisconnectedAt' = [DisconnectedAt EXCEPT ![s] = IF left = {} THEN now ELSE @]
        /\ zeroSince' = [zeroSince EXCEPT ![s] =
                            IF left = {} /\ clients[s] # {} THEN now ELSE @]
        /\ UNCHANGED LastActivityAt

\* a DisconnectAllClients that counts only the clients whose socket was still open
DisconnectAllCountOpen(s) == Cardinality({c \in clients[s] : sock[c] = "open"})

\* Session.DisconnectAllClients: the count it returns
DisconnectAllCount(s) == Cardinality(clients[s])

\* Session.DisconnectAllClients: every socket of the map closed, the map and
\* connectedClientId cleared (DisconnectedAt is not touched)
DisconnectAllClients(s) ==
    /\ sock' = [c \in Conns |-> IF c \in clients[s] THEN "closed" ELSE sock[c]]
    /\ clients' = [clients EXCEPT ![s] = {}]
    /\ connectedClientId' = [connectedClientId EXCEPT ![s] = NoClient]
    /\ zeroSince' = [zeroSince EXCEPT ![s] = IF clients[s] # {} THEN now ELSE @]
    /\ UNCHANGED <<DisconnectedAt, LastActivityAt>>

\* The body Session.Close and Session.CloseWithTmux run under closeOnce, for each
\* session of S whose guard has not fired: close(done), every client socket closed
\* and the map cleared, then PTY.Close or PTY.CloseWithTmux.  When the done channel
\* of such a session is closed already, close(done) panics: the guard of that session
\* has fired (sync.Once marks a panicking call as done), the rest of its body does
\* not run, and the sessions the caller's loop had reached before (D) are torn down.
CloseOnce(S, withTmux) ==
    LET F == {s \in S : ~onceFired[s]}
        P == {s \in F : gen[s] \in doneClosed[s]}
    IN  \E D \in (IF P = {} THEN {F} ELSE SUBSET (F \ P)),
           X \in (IF P = {} THEN {{}} ELSE {{s} : s \in P}) :
            /\ panicked' = (P # {})
            /\ onceFired' = [s \in Ids |-> onceFired[s] \/ s \in D \cup X]
            /\ doneClosed' = [s \in Ids |->
                                 IF s \in D THEN doneClosed[s] \cup {gen[s]}
                                 ELSE doneClosed[s]]
            /\ sock' = [c \in Conns |->
                           IF \E s \in D : c \in clients[s] THEN "closed" ELSE sock[c]]
            /\ clients' = [s \in Ids |-> IF s \in D THEN {} ELSE clients[s]]
            /\ connectedClientId' =
                  [s \in Ids |-> IF s \in D THEN NoClient ELSE connectedClientId[s]]
            /\ zeroSince' = [s \in Ids |->
                                IF s \in D /\ clients[s] # {} THEN now ELSE zeroSince[s]]
            /\ ptyState' = [s \in Ids |->
                               IF s \in D THEN [ptyState[s] EXCEPT ![CurPTY(s)] = "closed"]
                               ELSE ptyState[s]]
            /\ tmuxLive' = IF withTmux /\ TmuxEnabled THEN tmuxLive \ D ELSE tmuxLive
            /\ UNCHANGED <<DisconnectedAt, LastActivityAt, gen>>

\* Session.Close: the attachment only
Close(S) == CloseOnce(S, FALSE)

\* Session.CloseWithTmux: the attachment and the tmux session
CloseWithTmux(S) == CloseOnce(S, TRUE)

\* Session.ReplacePTY, first half: the old PTY is closed and Session.PTY is assigned
SwapPTY(s) == ptyState' = [ptyState EXCEPT ![s][gen[s]] = "closed"]

\* Session.ReplacePTY, s.done = make(chan struct{}): a fresh done channel, with the
\* close guard still the old one
RenewDone(s) == gen' = [gen EXCEPT ![s] = @ + 1]

\* Session.ReplacePTY, the rest: a fresh closeOnce, a new reader and a new pump
\* started
ReplacePTY(s) ==
    LET g == gen[s]
    IN  /\ onceFired' = [onceFired EXCEPT ![s] = FALSE]
        /\ rpc' = [rpc EXCEPT ![s][g] = "read"]
        /\ rpty' = [rpty EXCEPT ![s][g] = g]
        /\ ppc' = [ppc EXCEPT ![s][g] = "wait"]
        /\ pwatch' = [pwatch EXCEPT ![s][g] = g]
        /\ UNCHANGED <<gen, ptyState, doneClosed, tmuxLive, pchunk, psnap, ptodo, pfailed>>

\* ---------------------------------------------------------------- reader task
\* a broadcast channel without a capacity: a send always succeeds
HasRoomAlways(s) == TRUE

\* the send case of the select in readPTY is ready: the buffered channel is not full
HasRoom(s) == Len(broadcast[s]) < QueueCap

\* Session.readPTY, a read of n > 0 bytes: the chunk is offered to the broadcast
\* channel without blocking (sent if there is room, the task returns if done is
\* closed, the chunk is discarded otherwise); back at the top of the loop the task
\* returns if done is closed and otherwise blocks in Read on the current PTY.
ReaderRead(s, g) ==
    /\ Running
    /\ rpc[s][g] = "read"
    /\ ptyState[s][rpty[s][g]] = "open"
    /\ nextChunk[s] <= MaxChunks
    /\ nextChunk' = [nextChunk EXCEPT ![s] = @ + 1]
    /\ \/ /\ HasRoom(s)
          /\ broadcast' = [broadcast EXCEPT ![s] = Append(@, nextChunk[s])]
          /\ rpc' = [rpc EXCEPT ![s][g] = IF IsClosed(s) THEN "exit" ELSE "read"]
          /\ UNCHANGED dropped
       \/ /\ IsClosed(s)
          /\ rpc' = [rpc EXCEPT ![s][g] = "exit"]
          /\ UNCHANGED <<broadcast, dropped>>
       \/ /\ ~HasRoom(s)
          /\ ~IsClosed(s)
          /\ dropped' = [dropped EXCEPT ![s] = @ \cup {nextChunk[s]}]
          /\ rpc' = [rpc EXCEPT ![s][g] = "read"]
          /\ UNCHANGED broadcast
    /\ rpty' = [rpty EXCEPT ![s][g] = IF rpc'[s][g] = "exit" THEN g ELSE CurPTY(s)]
    /\ UNCHANGED <<TmuxEnabled, fineVars, panicked, lockVars, restVars, now, poolVars, clientVars, lifeVars, pumpVars, connVars,
                   sock, sent, takeoverVars, reattachVars, cleanupVars, tmuxCleanupVars>>

\* Session.readPTY, a read error (the PTY was closed, or the process behind it has
\* exited, which can happen at any time): the reader calls Session.Close and returns.
ReaderErr(s, g) ==
    /\ Running
    /\ rpc[s][g] = "read"
    /\ Close({s})
    /\ rpc' = [rpc EXCEPT ![s][g] = "exit"]
    /\ rpty' = [rpty EXCEPT ![s][g] = g]
    /\ UNCHANGED <<TmuxEnabled, fineVars, lockVars, restVars, now, poolVars, chunkVars, pumpVars, connVars, sent,
                   takeoverVars, reattachVars, cleanupVars, tmuxCleanupVars>>

\* ---------------------------------------------------------------- pump task
\* Session.broadcastLoop receives a chunk; broadcastToClients snapshots the clients
PumpTake(s, g) ==
    /\ Running
    /\ ppc[s][g] = "wait"
    /\ broadcast[s] # <<>>
    /\ broadcast' = [broadcast EXCEPT ![s] = Tail(@)]
    /\ pchunk' = [pchunk EXCEPT ![s][g] = Head(broadcast[s])]
    /\ psnap' = [psnap EXCEPT ![s][g] = clients[s]]
    /\ ptodo' = [ptodo EXCEPT ![s][g] = clients[s]]
    /\ pfailed' = [pfailed EXCEPT ![s][g] = {}]
    /\ ppc' = [ppc EXCEPT ![s][g] = "write"]
    /\ UNCHANGED <<TmuxEnabled, fineVars, panicked, lockVars, restVars, now, poolVars, clientVars, lifeVars, nextChunk, dropped,
                   readerVars, pwatch, connVars, sock, sent, takeoverVars, reattachVars,
                   cleanupVars, tmuxCleanupVars>>

\* a write loop that returns at the first failed write
WriteLoopStepBreak(s, g, c) ==
    IF sock[c] = "open"
    THEN /\ ptodo' = [ptodo EXCEPT ![s][g] = @ \ {c}]
         /\ sent' = [sent EXCEPT ![c] = Append(@, pchunk[s][g])]
         /\ UNCHANGED pfailed
    ELSE /\ ptodo' = [ptodo EXCEPT ![s][g] = {}]
         /\ pfailed' = [pfailed EXCEPT ![s][g] = @ \cup {c}]
         /\ UNCHANGED sent

\* Session.broadcastToClients, one iteration of the write loop: what remains of the
\* snapshot after the write to client c, and the failed list
WriteLoopStep(s, g, c) ==
    /\ ptodo' = [ptodo EXCEPT ![s][g] = @ \ {c}]
    /\ IF sock[c] = "open"
       THEN /\ sent' = [sent EXCEPT ![c] = Append(@, pchunk[s][g])]
            /\ UNCHANGED pfailed
       ELSE /\ pfailed' = [pfailed EXCEPT ![s][g] = @ \cup {c}]
            /\ UNCHANGED sent

\* Session.broadcastToClients: client.WriteMessage to one client of the snapshot
PumpWrite(s, g, c) ==
    /\ Running
    /\ ppc[s][g] = "write"
    /\ c \in ptodo[s][g]
    /\ WriteLoopStep(s, g, c)
    /\ UNCHANGED <<TmuxEnabled, fineVars, panicked, lockVars, restVars, now, poolVars, clientVars, lifeVars, chunkVars, readerVars,
                   ppc, pwatch, pchunk, psnap, connVars, sock, takeoverVars, reattachVars,
                   cleanupVars, tmuxCleanupVars>>

\* a broadcastToClients that closes every client of its snapshot after a failure
CloseSnapshot(s, g) == IF pfailed[s][g] = {} THEN {} ELSE psnap[s][g]

\* Session.broadcastToClients: the sockets closed after the write loop
CloseFailed(s, g) == pfailed[s][g]

\* Session.broadcastToClients closes the failed clients; broadcastLoop selects again,
\* on the done channel the session holds now
PumpFinish(s, g) ==
    /\ Running
    /\ ppc[s][g] = "write"
    /\ ptodo[s][g] = {}
    /\ sock' = [c \in Conns |-> IF c \in CloseFailed(s, g) THEN "closed" ELSE sock[c]]
    /\ ppc' = [ppc EXCEPT ![s][g] = "wait"]
    /\ pwatch' = [pwatch EXCEPT ![s][g] = gen[s]]
    /\ pchunk' = [pchunk EXCEPT ![s][g] = 0]
    /\ psnap' = [psnap EXCEPT ![s][g] = {}]
    /\ pfailed' = [pfailed EXCEPT ![s][g] = {}]
    /\ UNCHANGED <<TmuxEnabled, fineVars, panicked, lockVars, restVars, now, poolVars, clientVars, lifeVars, chunkVars, readerVars,
                   ptodo, connVars, sent, takeoverVars, reattachVars, cleanupVars,
                   tmuxCleanupVars>>

\* Session.broadcastLoop: done is closed, the pump returns
PumpExit(s, g) ==
    /\ Running
    /\ ppc[s][g] = "wait"
    /\ pwatch[s][g] \in doneClosed[s]
    /\ ppc' = [ppc EXCEPT ![s][g] = "exit"]
    /\ pwatch' = [pwatch EXCEPT ![s][g] = g]
    /\ UNCHANGED <<TmuxEnabled, fineVars, panicked, lockVars, restVars, now, poolVars, clientVars, lifeVars, chunkVars, readerVars,
                   pchunk, psnap, ptodo, pfailed, connVars, sock, sent,
                   takeoverVars, reattachVars, cleanupVars, tmuxCleanupVars>>

\* ---------------------------------------------------------------- Pool.Create
\* pty.SpawnWithTmux, first half (tmux.SpawnSession: new-session -d), or, without
\* tmux, pty.Spawn followed by NewSession
CreateSpawn(s) ==
    /\ Running
    /\ crpc[s] = "none"
    /\ IF TmuxEnabled
       THEN /\ tmuxLive' = tmuxLive \cup {s}
            /\ crpc' = [crpc EXCEPT ![s] = "spawned"]
            /\ UNCHANGED <<ptyState, rpc, ppc, LastActivityAt, zeroSince>>
       ELSE /\ ptyState' = [ptyState EXCEPT ![s][0] = "open"]
            /\ rpc' = [rpc EXCEPT ![s][0] = "read"]
            /\ ppc' = [ppc EXCEPT ![s][0] = "wait"]
            /\ LastActivityAt' = [LastActivityAt EXCEPT ![s] = now]
            /\ zeroSince' = [zeroSince EXCEPT ![s] = now]
            /\ crpc' = [crpc EXCEPT ![s] = "made"]
            /\ UNCHANGED tmuxLive
    /\ UNCHANGED <<TmuxEnabled, fineVars, panicked, lockVars, restVars, now, sessions, mu, clients, connectedClientId,
                   DisconnectedAt, gen, doneClosed, onceFired, chunkVars, rpty, pwatch,
                   pchunk, psnap, ptodo, pfailed, connVars, sock, sent, takeoverVars,
                   reattachVars, cleanupVars, tmuxCleanupVars>>

\* pty.SpawnWithTmux, second half (tmux.AttachSession), then NewSession; Create
\* returns the error when the tmux session is gone
CreateAttach(s) ==
    /\ Running
    /\ crpc[s] = "spawned"
    /\ IF SessionExists(s)
       THEN /\ ptyState' = [ptyState EXCEPT ![s][0] = "open"]
            /\ rpc' = [rpc EXCEPT ![s][0] = "read"]
            /\ ppc' = [ppc EXCEPT ![s][0] = "wait"]
            /\ LastActivityAt' = [LastActivityAt EXCEPT ![s] = now]
            /\ zeroSince' = [zeroSince EXCEPT ![s] = now]
            /\ crpc' = [crpc EXCEPT ![s] = "made"]
       ELSE /\ crpc' = [crpc EXCEPT ![s] = "failed"]
            /\ UNCHANGED <<ptyState, rpc, ppc, LastActivityAt, zeroSince>>
    /\ UNCHANGED <<TmuxEnabled, fineVars, panicked, lockVars, restVars, now, sessions, mu, clients, connectedClientId,
                   DisconnectedAt, gen, doneClosed, onceFired, tmuxLive, chunkVars, rpty,
                   pwatch, pchunk, psnap, ptodo, pfailed, connVars, sock, sent,
                   takeoverVars, reattachVars, cleanupVars, tmuxCleanupVars>>

\* Pool.Create: the session is inserted under the write lock and returned
CreateInsert(s) ==
    /\ Running
    /\ crpc[s] = "made"
    /\ mu = "free"
    /\ sessions' = sessions \cup {s}
    /\ crpc' = [crpc EXCEPT ![s] = "done"]
    /\ UNCHANGED <<TmuxEnabled, fineVars, panicked, lockVars, restVars, now, mu, clientVars, lifeVars, chunkVars, readerVars,
                   pumpVars, connVars, sock, sent, takeoverVars, reattachVars,
                   cleanupVars, tmuxCleanupVars>>

\* ---------------------------------------------------------------- Handler.connectSession
\* Pool.Get resolves the session; the WebSocket upgrade succeeds
ConnGet(c, s) ==
    /\ Running
    /\ cpc[c] = "idle"
    /\ Get(s)
    /\ cpc' = [cpc EXCEPT ![c] = "got"]
    /\ csess' = [csess EXCEPT ![c] = s]
    /\ UNCHANGED <<TmuxEnabled, fineVars, panicked, lockVars, restVars, now, poolVars, clientVars, lifeVars, chunkVars, readerVars,
                   pumpVars, sock, sent, takeoverVars, reattachVars, cleanupVars,
                   tmuxCleanupVars>>

\* sess.AddClient(conn, clientID); the handler enters its read loop
ConnAdd(c) ==
    /\ Running
    /\ cpc[c] = "got"
    /\ AddClient(csess[c], c)
    /\ cpc' = [cpc EXCEPT ![c] = "loop"]
    /\ UNCHANGED <<TmuxEnabled, fineVars, panicked, lockVars, restVars, now, poolVars, lifeVars, chunkVars, readerVars, pumpVars,
                   csess, sock, sent, takeoverVars, reattachVars, cleanupVars,
                   tmuxCleanupVars>>

\* the peer goes away (it closes the WebSocket, or the network drops)
ConnDrop(c) ==
    /\ Running
    /\ cpc[c] = "loop"
    /\ sock[c] = "open"
    /\ sock' = [sock EXCEPT ![c] = "broken"]
    /\ UNCHANGED <<TmuxEnabled, fineVars, panicked, lockVars, restVars, now, poolVars, clientVars, lifeVars, chunkVars, readerVars,
                   pumpVars, connVars, sent, takeoverVars, reattachVars, cleanupVars,
                   tmuxCleanupVars>>

\* conn.ReadMessage or sess.Write fails: the deferred sess.RemoveClient(conn) and
\* conn.Close() run
ConnLeave(c) ==
    /\ Running
    /\ cpc[c] = "loop"
    /\ sock[c] # "open" \/ ptyState[csess[c]][CurPTY(csess[c])] = "closed"
    /\ RemoveClient(csess[c], c)
    /\ sock' = [sock EXCEPT ![c] = "closed"]
    /\ cpc' = [cpc EXCEPT ![c] = "done"]
    /\ UNCHANGED <<TmuxEnabled, fineVars, panicked, lockVars, restVars, now, poolVars, lifeVars, chunkVars, readerVars, pumpVars,
                   csess, sent, takeoverVars, reattachVars, cleanupVars, tmuxCleanupVars>>

\* ---------------------------------------------------------------- Handler.takeoverSession
TakeoverGet(s) ==
    /\ Running
    /\ kpc = "idle"
    /\ Get(s)
    /\ kpc' = "got"
    /\ ksess' = s
    /\ UNCHANGED <<TmuxEnabled, fineVars, panicked, lockVars, restVars, now, poolVars, clientVars, lifeVars, chunkVars, readerVars,
                   pumpVars, connVars, sock, sent, disconnectedCount, reattachVars,
                   cleanupVars, tmuxCleanupVars>>

\* sess.DisconnectAllClients(CloseCode4001, ...); the reply carries its result
TakeoverDisconnect ==
    /\ Running
    /\ kpc = "got"
    /\ disconnectedCount' = DisconnectAllCount(ksess)
    /\ DisconnectAllClients(ksess)
    /\ kpc' = "reply"
    /\ UNCHANGED <<TmuxEnabled, fineVars, panicked, lockVars, restVars, now, poolVars, lifeVars, chunkVars, readerVars, pumpVars,
                   connVars, sent, ksess, reattachVars, cleanupVars, tmuxCleanupVars>>

\* the TakeoverResponse is written and the handler returns
TakeoverReply ==
    /\ Running
    /\ kpc = "reply"
    /\ kpc' = "idle"
    /\ disconnectedCount' = Nil
    /\ UNCHANGED <<TmuxEnabled, fineVars, panicked, lockVars, restVars, now, poolVars, clientVars, lifeVars, chunkVars, readerVars,
                   pumpVars, connVars, sock, sent, ksess, reattachVars, cleanupVars,
                   tmuxCleanupVars>>

\* ---------------------------------------------------------------- Pool.Remove, Pool.CloseAll
\* Pool.Remove (Handler.deleteSession) on a mapped id
Remove(s) ==
    /\ Running
    /\ mu = "free"
    /\ s \in sessions
    /\ CloseWithTmux({s})
    /\ sessions' = IF Panics({s}) THEN sessions ELSE sessions \ {s}
    /\ UNCHANGED <<TmuxEnabled, fineVars, lockVars, restVars, now, mu, crpc, chunkVars, readerVars, pumpVars, connVars,
                   sent, takeoverVars, reattachVars, cleanupVars, tmuxCleanupVars>>

\* Pool.CloseAll
CloseAll ==
    /\ Running
    /\ mu = "free"
    /\ sessions # {}
    /\ CloseWithTmux(sessions)
    /\ sessions' = IF Panics(sessions) THEN sessions ELSE {}
    /\ UNCHANGED <<TmuxEnabled, fineVars, lockVars, restVars, now, mu, crpc, chunkVars, readerVars, pumpVars, connVars,
                   sent, takeoverVars, reattachVars, cleanupVars, tmuxCleanupVars>>

\* ---------------------------------------------------------------- REST handlers
\* Handler.getSession: 404 when Pool.Get reports not found, the session's data
\* otherwise
GetSession(s) ==
    /\ Running
    /\ reply = NoReply
    /\ mu # "cleanup"
    /\ reply' = [op |-> "get", id |-> s, code |-> IF Get(s) THEN 200 ELSE 404]
    /\ UNCHANGED <<TmuxEnabled, fineVars, panicked, lockVars, now, poolVars, clientVars, lifeVars, chunkVars, readerVars,
                   pumpVars, connVars, sock, sent, takeoverVars, reattachVars, cleanupVars,
                   tmuxCleanupVars, Cols, Rows, upc, usess, absent>>

\* Handler.updateSession: Pool.Get, 404 when it reports not found
UpdateGet(s) ==
    /\ Running
    /\ reply = NoReply
    /\ upc = "idle"
    /\ mu # "cleanup"
    /\ IF Get(s)
       THEN /\ upc' = "got"
            /\ usess' = s
            /\ UNCHANGED reply
       ELSE /\ reply' = [op |-> "update", id |-> s, code |-> 404]
            /\ UNCHANGED <<upc, usess>>
    /\ UNCHANGED <<TmuxEnabled, fineVars, panicked, lockVars, now, poolVars, clientVars, lifeVars, chunkVars, readerVars,
                   pumpVars, connVars, sock, sent, takeoverVars, reattachVars, cleanupVars,
                   tmuxCleanupVars, Cols, Rows, absent>>

\* PTY.Resize on the session's current PTY: pty.Setsize fails on a closed file
ResizeFails(s) == ptyState[s][CurPTY(s)] # "open"

\* Session.Resize: Cols and Rows are assigned, then the PTY is resized
Resize(s, cols, rows) ==
    /\ Cols' = [Cols EXCEPT ![s] = cols]
    /\ Rows' = [Rows EXCEPT ![s] = rows]

\* Handler.updateSession: sess.Resize; 500 when it fails, 200 otherwise
UpdateResize(cols, rows) ==
    /\ Running
    /\ upc = "got"
    /\ Resize(usess, cols, rows)
    /\ reply' = [op |-> "update", id |-> usess,
                 code |-> IF ResizeFails(usess) THEN 500 ELSE 200]
    /\ upc' = "idle"
    /\ UNCHANGED <<TmuxEnabled, fineVars, panicked, lockVars, now, poolVars, clientVars, lifeVars, chunkVars, readerVars,
                   pumpVars, connVars, sock, sent, takeoverVars, reattachVars, cleanupVars,
                   tmuxCleanupVars, usess, absent>>

\* a Pool.Remove that would close the session it is asked for whether or not the id
\* is mapped
RemoveTargetUnmapped(s) == {s}

\* Pool.Remove: the sessions it closes and deletes, none when the id is not mapped
RemoveTarget(s) == {s} \cap sessions

\* Handler.deleteSession: Pool.Remove on any id, mapped or not, then 200
DeleteSession(s) ==
    /\ Running
    /\ reply = NoReply
    /\ mu = "free"
    /\ CloseWithTmux(RemoveTarget(s))
    /\ sessions' = IF Panics(RemoveTarget(s)) THEN sessions ELSE sessions \ {s}
    /\ absent' = IF crpc[s] = "done" /\ s \notin sessions THEN absent \cup {s} ELSE absent
    /\ reply' = IF Panics(RemoveTarget(s)) THEN reply
                ELSE [op |-> "delete", id |-> s, code |-> 200]
    /\ UNCHANGED <<TmuxEnabled, fineVars, lockVars, now, mu, crpc, chunkVars, readerVars, pumpVars, connVars,
                   sent, takeoverVars, reattachVars, cleanupVars, tmuxCleanupVars, Cols,
                   Rows, upc, usess>>

\* the handler has written its reply and returns
RestReturn ==
    /\ Running
    /\ reply # NoReply
    /\ reply' = NoReply
    /\ UNCHANGED <<TmuxEnabled, fineVars, panicked, lockVars, now, poolVars, clientVars, lifeVars, chunkVars, readerVars,
                   pumpVars, connVars, sock, sent, takeoverVars, reattachVars, cleanupVars,
                   tmuxCleanupVars, Cols, Rows, upc, usess, absent>>

\* ---------------------------------------------------------------- Pool.ReattachTmux
\* the checks Pool.ReattachTmux makes before it attaches: every other case returns
\* an error
ReattachAllowed(s) == TmuxEnabled /\ SessionExists(s) /\ ~IsClosed(s)

\* Pool.ReattachTmux is called on a session Create returned, and its checks pass
ReattachCheck(s) ==
    /\ Running
    /\ apc = "idle"
    /\ crpc[s] = "done"
    /\ gen[s] < MaxReattach
    /\ ReattachAllowed(s)
    /\ apc' = "checked"
    /\ asess' = s
    /\ UNCHANGED <<TmuxEnabled, fineVars, panicked, lockVars, restVars, now, poolVars, clientVars, lifeVars, chunkVars, readerVars,
                   pumpVars, connVars, sock, sent, takeoverVars, cleanupVars,
                   tmuxCleanupVars>>

\* pty.AttachTmux: a new attachment, or an error when the tmux session is gone
ReattachAttach ==
    /\ Running
    /\ apc = "checked"
    /\ IF SessionExists(asess)
       THEN /\ ptyState' = [ptyState EXCEPT ![asess][gen[asess] + 1] = "open"]
            /\ apc' = "attached"
       ELSE /\ apc' = "idle"
            /\ UNCHANGED ptyState
    /\ UNCHANGED <<TmuxEnabled, fineVars, panicked, lockVars, restVars, now, poolVars, clientVars, gen, doneClosed, onceFired,
                   tmuxLive, chunkVars, readerVars, pumpVars, connVars, sock, sent,
                   takeoverVars, asess, cleanupVars, tmuxCleanupVars>>

\* session.ReplacePTY(ptty), which takes no lock: s.PTY.Close() and s.PTY = newPTY
ReattachSwap ==
    /\ Running
    /\ apc = "attached"
    /\ SwapPTY(asess)
    /\ apc' = "swapped"
    /\ UNCHANGED <<TmuxEnabled, fineVars, panicked, lockVars, restVars, now, poolVars, clientVars, gen, doneClosed, onceFired,
                   tmuxLive, chunkVars, readerVars, pumpVars, connVars, sock, sent,
                   takeoverVars, asess, cleanupVars, tmuxCleanupVars>>

\* session.ReplacePTY(ptty): the fresh done channel
ReattachRenew ==
    /\ Running
    /\ apc = "swapped"
    /\ RenewDone(asess)
    /\ apc' = "renewed"
    /\ UNCHANGED <<TmuxEnabled, fineVars, panicked, lockVars, restVars, now, poolVars, clientVars, doneClosed,
                   onceFired, ptyState, tmuxLive, chunkVars, readerVars, pumpVars, connVars,
                   sock, sent, takeoverVars, asess, cleanupVars, tmuxCleanupVars>>

\* session.ReplacePTY(ptty): the fresh closeOnce, the new reader and pump; ReattachTmux
\* returns nil
ReattachReplace ==
    /\ Running
    /\ apc = "renewed"
    /\ ReplacePTY(asess)
    /\ apc' = "idle"
    /\ UNCHANGED <<TmuxEnabled, fineVars, panicked, lockVars, restVars, now, poolVars, clientVars, chunkVars, connVars, sock, sent,
                   takeoverVars, asess, cleanupVars, tmuxCleanupVars>>

\* ---------------------------------------------------------------- Pool.cleanup (idle reaper)
\* the ticker fires: p.mu.Lock(), now := time.Now()
CleanupBegin ==
    /\ Running
    /\ clpc = "idle"
    /\ mu = "free"
    /\ mu' = "cleanup"
    /\ clpc' = "scan"
    /\ clNow' = now
    /\ clScan' = sessions
    /\ toRemove' = {}
    /\ UNCHANGED <<TmuxEnabled, fineVars, panicked, lockVars, restVars, now, sessions, crpc, clientVars, lifeVars, chunkVars,
                   readerVars, pumpVars, connVars, sock, sent, takeoverVars, reattachVars,
                   clCur, tmuxCleanupVars>>

\* Pool.cleanup, the test that sends a session on to the timeout comparison
IdleCandidate(s) == DisconnectedAt[s] # Nil /\ ClientCount(s) = 0

\* one iteration of the scan loop, up to the test of DisconnectedAt and ClientCount
CleanupCheck(s) ==
    /\ Running
    /\ clpc = "scan"
    /\ s \in clScan
    /\ clScan' = clScan \ {s}
    /\ IF IsClosed(s)
       THEN /\ toRemove' = toRemove \cup {s}
            /\ UNCHANGED <<clpc, clCur>>
       ELSE IF IdleCandidate(s)
       THEN /\ clpc' = "deref"
            /\ clCur' = s
            /\ UNCHANGED toRemove
       ELSE UNCHANGED <<clpc, clCur, toRemove>>
    /\ UNCHANGED <<TmuxEnabled, fineVars, panicked, lockVars, restVars, now, poolVars, clientVars, lifeVars, chunkVars, readerVars,
                   pumpVars, connVars, sock, sent, takeoverVars, reattachVars, clNow,
                   tmuxCleanupVars>>

\* Pool.cleanup, the timeout comparison
Expired(s) == clNow - DisconnectedAt[s] > SessionTimeout

\* now.Sub(*session.DisconnectedAt): the field is read again, without the session
\* lock; a nil pointer here is a run-time panic
CleanupDeref ==
    /\ Running
    /\ clpc = "deref"
    /\ IF DisconnectedAt[clCur] = Nil
       THEN /\ clpc' = "panic"
            /\ UNCHANGED toRemove
       ELSE /\ clpc' = "scan"
            /\ toRemove' = IF Expired(clCur) THEN toRemove \cup {clCur} ELSE toRemove
    /\ UNCHANGED <<TmuxEnabled, fineVars, panicked, lockVars, restVars, now, poolVars, clientVars, lifeVars, chunkVars, readerVars,
                   pumpVars, connVars, sock, sent, takeoverVars, reattachVars, clNow,
                   clScan, clCur, tmuxCleanupVars>>

\* the second loop: session.CloseWithTmux() and delete(p.sessions, id)
CleanupRemove(s) ==
    /\ Running
    /\ clpc = "scan"
    /\ clScan = {}
    /\ s \in toRemove
    /\ CloseWithTmux({s} \cap sessions)
    /\ sessions' = IF Panics({s} \cap sessions) THEN sessions ELSE sessions \ {s}
    /\ toRemove' = IF Panics({s} \cap sessions) THEN toRemove ELSE toRemove \ {s}
    /\ UNCHANGED <<TmuxEnabled, fineVars, lockVars, restVars, now, mu, crpc, chunkVars, readerVars, pumpVars, connVars,
                   sent, takeoverVars, reattachVars, clpc, clNow, clScan, clCur,
                   tmuxCleanupVars>>

\* the deferred p.mu.Unlock()
CleanupEnd ==
    /\ Running
    /\ clpc = "scan"
    /\ clScan = {}
    /\ toRemove = {}
    /\ mu' = "free"
    /\ clpc' = "idle"
    /\ clNow' = 0
    /\ UNCHANGED <<TmuxEnabled, fineVars, panicked, lockVars, restVars, now, sessions, crpc, clientVars, lifeVars, chunkVars,
                   readerVars, pumpVars, connVars, sock, sent, takeoverVars, reattachVars,
                   clScan, clCur, toRemove, tmuxCleanupVars>>

\* ---------------------------------------------------------------- Pool.cleanupTmuxSessions
\* tmux.ListSessions("pty_"), now := time.Now() (StartTmuxCleanup runs with tmux only)
TmuxList ==
    /\ Running
    /\ tpc = "idle"
    /\ TmuxEnabled
    /\ tmuxLive # {}
    /\ tList' = tmuxLive
    /\ tNow' = now
    /\ killed' = {}
    /\ tpc' = "listed"
    /\ UNCHANGED <<TmuxEnabled, fineVars, panicked, lockVars, restVars, now, poolVars, clientVars, lifeVars, chunkVars, readerVars,
                   pumpVars, connVars, sock, sent, takeoverVars, reattachVars, cleanupVars,
                   tCur>>

\* p.mu.RLock()
TmuxRLock ==
    /\ Running
    /\ tpc = "listed"
    /\ mu = "free"
    /\ mu' = "tmux"
    /\ tpc' = "scan"
    /\ UNCHANGED <<TmuxEnabled, fineVars, panicked, lockVars, restVars, now, sessions, crpc, clientVars, lifeVars, chunkVars,
                   readerVars, pumpVars, connVars, sock, sent, takeoverVars, reattachVars,
                   cleanupVars, tNow, tList, killed, tCur>>

\* whether cleanupTmuxSessions marks the listed tmux session n for the kill
MarkForKill(n) ==
    IF n \in sessions
    THEN ClientCount(n) = 0 /\ tNow - LastActivityAt[n] > MaxInactive
    ELSE GetSessionClientCount(n) = 0

\* one iteration of the loop under the read lock
TmuxScan(n) ==
    /\ Running
    /\ tpc = "scan"
    /\ n \in tList
    /\ tList' = tList \ {n}
    /\ killed' = IF MarkForKill(n) THEN killed \cup {n} ELSE killed
    /\ UNCHANGED <<TmuxEnabled, fineVars, panicked, lockVars, restVars, now, poolVars, clientVars, lifeVars, chunkVars, readerVars,
                   pumpVars, connVars, sock, sent, takeoverVars, reattachVars, cleanupVars,
                   tpc, tNow, tCur>>

\* p.mu.RUnlock()
TmuxRUnlock ==
    /\ Running
    /\ tpc = "scan"
    /\ tList = {}
    /\ mu' = "free"
    /\ tpc' = "kill"
    /\ UNCHANGED <<TmuxEnabled, fineVars, panicked, lockVars, restVars, now, sessions, crpc, clientVars, lifeVars, chunkVars,
                   readerVars, pumpVars, connVars, sock, sent, takeoverVars, reattachVars,
                   cleanupVars, tNow, tList, killed, tCur>>

\* tmux.KillSession(sessionName), outside the lock
TmuxKill(n) ==
    /\ Running
    /\ tpc = "kill"
    /\ n \in killed
    /\ tmuxLive' = tmuxLive \ {n}
    /\ tCur' = n
    /\ tpc' = "drop"
    /\ UNCHANGED <<TmuxEnabled, fineVars, panicked, lockVars, restVars, now, poolVars, clientVars, gen, doneClosed, onceFired,
                   ptyState, chunkVars, readerVars, pumpVars, connVars, sock, sent, takeoverVars,
                   reattachVars, cleanupVars, tNow, tList, killed>>

\* under the write lock: s.Close() and delete(p.sessions, id) for the tracked session
TmuxDrop ==
    /\ Running
    /\ tpc = "drop"
    /\ mu = "free"
    /\ Close({tCur} \cap sessions)
    /\ sessions' = IF Panics({tCur} \cap sessions) THEN sessions ELSE sessions \ {tCur}
    /\ killed' = IF Panics({tCur} \cap sessions) THEN killed ELSE killed \ {tCur}
    /\ tpc' = IF Panics({tCur} \cap sessions) THEN tpc ELSE "kill"
    /\ UNCHANGED <<TmuxEnabled, fineVars, lockVars, restVars, now, mu, crpc, chunkVars, readerVars, pumpVars, connVars,
                   sent, takeoverVars, reattachVars, cleanupVars, tNow, tList, tCur>>

\* the kill loop is over
TmuxEnd ==
    /\ Running
    /\ tpc = "kill"
    /\ killed = {}
    /\ tpc' = "idle"
    /\ tNow' = 0
    /\ UNCHANGED <<TmuxEnabled, fineVars, panicked, lockVars, restVars, now, poolVars, clientVars, lifeVars, chunkVars, readerVars,
                   pumpVars, connVars, sock, sent, takeoverVars, reattachVars, cleanupVars,
                   tList, killed, tCur>>

\* ---------------------------------------------------------------- environment
\* the clock advances
Tick ==
    /\ Running
    /\ now < MaxTime
    /\ now' = now + 1
    /\ UNCHANGED <<TmuxEnabled, fineVars, panicked, lockVars, restVars, poolVars, clientVars, lifeVars, chunkVars, readerVars,
                   pumpVars, connVars, sock, sent, takeoverVars, reattachVars, cleanupVars,
                   tmuxCleanupVars>>

\* ---------------------------------------------------------------- specifications
CoreStep ==
    \/ \E s \in Ids : CreateSpawn(s) \/ CreateAttach(s) \/ CreateInsert(s)
    \/ \E c \in Conns : (\E s \in Ids : ConnGet(c, s)) \/ ConnAdd(c) \/ ConnDrop(c) \/ ConnLeave(c)
    \/ \E s \in Ids : Remove(s)
    \/ \E s \in Ids, g \in Gens : ReaderErr(s, g)
    \/ \E s \in Ids : ReattachCheck(s)
    \/ ReattachAttach
    \/ ReattachSwap
    \/ ReattachRenew
    \/ ReattachReplace

TakeoverStep ==
    \/ \E s \in Ids : TakeoverGet(s)
    \/ TakeoverDisconnect
    \/ TakeoverReply

FanoutStep ==
    \/ \E s \in Ids, g \in Gens : ReaderRead(s, g) \/ PumpTake(s, g) \/ PumpFinish(s, g) \/ PumpExit(s, g)
    \/ \E s \in Ids, g \in Gens, c \in Conns : PumpWrite(s, g, c)

SweepStep ==
    \/ Tick
    \/ CloseAll
    \/ CleanupBegin
    \/ \E s \in Ids : CleanupCheck(s) \/ CleanupRemove(s)
    \/ CleanupDeref
    \/ CleanupEnd
    \/ TmuxList
    \/ TmuxRLock
    \/ \E n \in Ids : TmuxScan(n) \/ TmuxKill(n)
    \/ TmuxRUnlock
    \/ TmuxDrop
    \/ TmuxEnd

RestStep ==
    \/ \E s \in Ids : GetSession(s) \/ UpdateGet(s) \/ DeleteSession(s)
    \/ \E cols, rows \in Dims : UpdateResize(cols, rows)
    \/ RestReturn

Next == CoreStep \/ TakeoverStep \/ FanoutStep \/ SweepStep \/ RestStep

Spec == Init /\ [][Next]_vars

\* one session's fan-out: clients, takeover, reader, pumps, close and re-attach
NextFanout == CoreStep \/ TakeoverStep \/ FanoutStep

SpecFanout == Init /\ [][NextFanout]_vars

\* the pool and its sweepers against the clock, without the chunk traffic
NextPool == CoreStep \/ SweepStep

SpecPool == Init /\ [][NextPool]_vars

\* the REST handlers and the takeover against connections, close and re-attach
NextRest == CoreStep \/ TakeoverStep \/ RestStep

SpecRest == Init /\ [][NextRest]_vars

\* the idle reaper alone against the clock; its ticker keeps firing and Pool.cleanup,
\* once started, runs to its end
CleanupStep ==
    \/ CleanupBegin
    \/ \E s \in Ids : CleanupCheck(s) \/ CleanupRemove(s)
    \/ CleanupDeref
    \/ CleanupEnd

NextReaper == CoreStep \/ Tick \/ CleanupStep

FairSpecReaper == Init /\ [][NextReaper]_vars /\ WF_vars(CleanupStep)

\* one session's broadcast against its connections: the handler of a connection whose
\* socket is closed gets the error from ReadMessage and runs its deferred cleanup
ConnStep ==
    \E c \in Conns : (\E s \in Ids : ConnGet(c, s)) \/ ConnAdd(c) \/ ConnDrop(c) \/ ConnLeave(c)

NextBroadcast ==
    \/ \E s \in Ids : CreateSpawn(s) \/ CreateAttach(s) \/ CreateInsert(s)
    \/ ConnStep
    \/ FanoutStep
    \/ \E s \in Ids, g \in Gens : ReaderErr(s, g)

FairSpecBroadcast ==
    Init /\ [][NextBroadcast]_vars /\ \A c \in Conns : WF_vars(ConnLeave(c))

SpecBroadcast == Init /\ [][NextBroadcast]_vars

\* the reader and pump tasks of one session against close and re-attach: every task
\* that can take a step eventually takes one (a Read on a PTY returns, a select with
\* a ready case proceeds)
TaskStep(s, g) ==
    \/ ReaderRead(s, g)
    \/ ReaderErr(s, g)
    \/ PumpTake(s, g)
    \/ PumpFinish(s, g)
    \/ PumpExit(s, g)
    \/ \E c \in Conns : PumpWrite(s, g, c)

NextTasks ==
    \/ \E s \in Ids : CreateSpawn(s) \/ CreateAttach(s) \/ CreateInsert(s)
    \/ ConnStep
    \/ \E s \in Ids, g \in Gens : TaskStep(s, g)
    \/ \E s \in Ids : Remove(s)
    \/ \E s \in Ids : ReattachCheck(s)
    \/ ReattachAttach
    \/ ReattachSwap
    \/ ReattachRenew
    \/ ReattachReplace

FairSpecTasks ==
    Init /\ [][NextTasks]_vars /\ \A s \in Ids, g \in Gens : WF_vars(TaskStep(s, g))

\* ---------------------------------------------------------------- claims
\* the sessions NewSession has returned
Made == {s \in Ids : crpc[s] \in {"made", "done"}}

\* C1: for every session, from the moment NewSession returns, the client map is
\* empty if and only if DisconnectedAt is non-nil.
C1_EmptyIffDisconnected ==
    \A s \in Made : (clients[s] = {}) <=> (DisconnectedAt[s] # Nil)

\* whether a sequence of chunk numbers is strictly increasing
Increasing(q) == \A i, j \in DOMAIN q : i < j => q[i] < q[j]

\* C3: the chunks written to a client's socket are an order-preserving subsequence
\* of the chunks read from the PTY, also after ReplacePTY.
C3_ReadOrder == \A c \in Conns : Increasing(sent[c])

\* a pump is at the end of the write loop of broadcastToClients
LoopDone(s, g) == ppc[s][g] = "write" /\ ptodo[s][g] = {}

\* C4: a chunk the reader discarded reaches no client; a chunk the pump dequeued is
\* written to every client of the pump's snapshot, except those whose write failed;
\* the pump closes the sockets of the failed clients and no other socket.
C4_Broadcast ==
    /\ [](\A c \in Conns : Range(sent[c]) \cap dropped[csess[c]] = {})
    /\ [](\A s \in Ids, g \in Gens :
             LoopDone(s, g) =>
                 \A c \in psnap[s][g] : c \in pfailed[s][g] \/ pchunk[s][g] \in Range(sent[c]))
    /\ [][\A s \in Ids, g \in Gens :
             (ppc[s][g] = "write" /\ ppc'[s][g] # "write") =>
                 \A c \in Conns : sock'[c] # sock[c] => c \in pfailed[s][g]]_vars

\* C4 witness: a broadcast ends with one client failed and another one written
C4_Witness ==
    \E s \in Ids, g \in Gens :
        /\ LoopDone(s, g)
        /\ pfailed[s][g] # {}
        /\ \E c \in psnap[s][g] \ pfailed[s][g] : pchunk[s][g] \in Range(sent[c])

\* C5: DisconnectAllClients returns the number of clients in the map when it takes
\* the lock and leaves the map empty and connectedClientId empty; the takeover
\* handler reports that number as disconnectedCount.
C5_TakeoverCount ==
    [][(kpc = "got" /\ kpc' = "reply") =>
          /\ disconnectedCount' = ClientCount(ksess)
          /\ clients'[ksess] = {}
          /\ connectedClientId'[ksess] = NoClient]_vars

\* C5 witness: a takeover has evicted two clients and is about to report the count
C5_Witness ==
    /\ kpc = "reply"
    /\ disconnectedCount = 2
    /\ clients[ksess] = {}
    /\ \A c \in Conns : csess[c] = ksess /\ sock[c] = "closed"

\* the step is the idle reaper's session.CloseWithTmux() on s, and its body runs
IdleReaperDestroys(s) == s \in toRemove /\ s \notin toRemove' /\ ~onceFired[s]

\* the step is the orphan reaper's tmux.KillSession on the tmux session of the
\* tracked session s
OrphanReaperKills(s) ==
    tpc = "kill" /\ tpc' = "drop" /\ tCur' = s /\ s \in sessions /\ s \in tmuxLive

\* the step is the orphan reaper's s.Close() on s, and its body runs
OrphanReaperCloses(s) ==
    tpc = "drop" /\ tpc' = "kill" /\ tCur = s /\ s \in sessions /\ ~onceFired[s]

\* C2: neither sweeper destroys a session whose client count is greater than zero
\* at the moment its CloseWithTmux, Close or KillSession runs.
C2_SweeperSparesAttached ==
    [][\A s \in Ids :
          (IdleReaperDestroys(s) \/ OrphanReaperKills(s) \/ OrphanReaperCloses(s))
              => ClientCount(s) = 0]_vars

\* C6: while a non-closed session has had zero clients for no longer than
\* SessionTimeout, no sweeper removes it from the pool or destroys its backend.
C6_SurvivesDisconnect ==
    [][\A s \in Ids :
          (/\ s \in sessions
           /\ ~IsClosed(s)
           /\ zeroSince[s] # Nil
           /\ now - zeroSince[s] <= SessionTimeout)
              => ~(IdleReaperDestroys(s) \/ OrphanReaperKills(s) \/ OrphanReaperCloses(s))]_vars

\* Pool.cleanup's condition for an expired session, at the present time
ExpiredNow(s) ==
    /\ ~IsClosed(s)
    /\ DisconnectedAt[s] # Nil
    /\ ClientCount(s) = 0
    /\ now - DisconnectedAt[s] > SessionTimeout

\* C7: under fair ticking of the idle reaper, a closed session is eventually dropped
\* from the mapping, and so is a session that is expired and stays so (not closed,
\* zero clients, DisconnectedAt older than SessionTimeout).
C7_ReaperEventuallyDrops ==
    \A s \in Ids :
        /\ (s \in sessions /\ IsClosed(s)) ~> (s \notin sessions \/ ~Running)
        /\ (s \in sessions /\ ExpiredNow(s))
               ~> (s \notin sessions \/ ~ExpiredNow(s) \/ ~Running)

\* the step is Pool.Remove, Pool.CloseAll or the idle reaper's removal of a session
\* it found expired, and it drops s from the mapping
DropsFromPool(s) ==
    /\ s \in sessions
    /\ s \notin sessions'
    /\ tpc' = tpc
    /\ mu = "cleanup" => ~IsClosed(s)

\* C8: whenever a multiplexed session leaves the mapping through Pool.Remove, the
\* idle reaper's expiry or Pool.CloseAll, its tmux session has been killed when the
\* operation returns.
C8_DropKillsTmux ==
    [][\A s \in Ids : (TmuxEnabled /\ DropsFromPool(s)) => s \notin tmuxLive']_vars

\* the reader of s has taken its read-error path (in SpecPool a reader exits in no
\* other way)
ReadErrorSeen(s) == \E g \in Gens : rpc[s][g] = "exit"

\* C9: a PTY read error on a multiplexed session does not kill the tmux session,
\* and while that tmux session exists Pool.ReattachTmux on the session succeeds.
C9_ReattachAfterReadError ==
    /\ [][\A s \in Ids, g \in Gens :
             (rpc[s][g] = "read" /\ rpc'[s][g] = "exit") => tmuxLive' = tmuxLive]_vars
    /\ [](\A s \in Ids :
             (TmuxEnabled /\ crpc[s] = "done" /\ ReadErrorSeen(s) /\ SessionExists(s))
                 => ReattachAllowed(s))

\* C10: once IsClosed() is true for a session it is true in every later state.
C10_ClosedMonotone ==
    [][\A s \in Ids : IsClosed(s) => IsClosed(s)']_vars

\* the step is a Session.Resize that returns an error
ResizeReturnsError == upc = "got" /\ reply'.op = "update" /\ reply'.code = 500

\* C11: an operation on a closed session either returns an error or leaves the
\* client map, connectedClientId, DisconnectedAt, Cols and Rows as they were; in
\* particular no client is registered in the map of a closed session.
C11_ClosedSessionInert ==
    [][\A s \in Ids :
          IsClosed(s) =>
              \/ ResizeReturnsError
              \/ /\ clients'[s] = clients[s]
                 /\ connectedClientId'[s] = connectedClientId[s]
                 /\ DisconnectedAt'[s] = DisconnectedAt[s]
                 /\ Cols'[s] = Cols[s]
                 /\ Rows'[s] = Rows[s]]_vars

\* the step runs the teardown body of Close / CloseWithTmux on session s
TeardownRuns(s) == doneClosed'[s] # doneClosed[s]

\* C12: Close and CloseWithTmux are set-once: the teardown body runs only on an
\* armed close guard and fires it, a call on a fired guard changes nothing, and the
\* body never closes a backend attachment that was closed before.
C12_CloseOnce ==
    [][\A s \in Ids :
          /\ TeardownRuns(s) => (~onceFired[s] /\ onceFired'[s])
          /\ (~onceFired[s] /\ onceFired'[s]) =>
                 /\ TeardownRuns(s)
                 /\ ptyState[s][CurPTY(s)] = "open"
                 /\ ptyState'[s][CurPTY(s)] = "closed"]_vars

\* the step is Handler.deleteSession on id s
Deletes(s) == reply = NoReply /\ reply'.op = "delete" /\ reply'.id = s

\* C13: Pool.Remove on an id that is absent from the mapping changes no pool or
\* session state; the id is absent afterwards in every case, and the DELETE handler
\* answers 200 in every case.
C13_RemoveIdempotent ==
    [][\A s \in Ids :
          Deletes(s) =>
              /\ reply'.code = 200
              /\ s \notin sessions'
              /\ s \notin sessions =>
                     UNCHANGED <<TmuxEnabled, fineVars, panicked, lockVars, now, poolVars, clientVars, lifeVars, chunkVars,
                                 readerVars, pumpVars, connVars, sock, sent, takeoverVars,
                                 reattachVars, cleanupVars, tmuxCleanupVars, Cols, Rows,
                                 upc, usess>>]_vars

\* C13 witness: a DELETE has been answered 200 for an id that had been inserted and
\* had left the mapping again when Pool.Remove ran
C13_Witness ==
    /\ reply.op = "delete"
    /\ reply.code = 200
    /\ reply.id \in absent

\* id s is a key of the mapping and the mapped session is not closed
Found(s) == s \in sessions /\ ~IsClosed(s)

\* C14: Pool.Get returns the session if and only if the id is mapped and the session
\* is not closed: getSession answers 200 in that case and 404 otherwise, updateSession
\* answers 404 exactly when it is not so, and updateSession, takeoverSession and
\* connectSession go on only with a session that is mapped and not closed.
C14_GetIffMappedOpen ==
    [][/\ \A s \in Ids :
             (reply = NoReply /\ reply'.op = "get" /\ reply'.id = s) =>
                 reply'.code = IF Found(s) THEN 200 ELSE 404
       /\ \A s \in Ids :
             (reply = NoReply /\ reply'.op = "update" /\ reply'.id = s /\ upc = "idle") =>
                 (reply'.code = 404 /\ ~Found(s))
       /\ (upc = "idle" /\ upc' = "got") => Found(usess')
       /\ (kpc = "idle" /\ kpc' = "got") => Found(ksess')
       /\ \A c \in Conns : (cpc[c] = "idle" /\ cpc'[c] = "got") => Found(csess'[c])]_vars

\* C14 witness: getSession has answered 404 for an id that is mapped to a closed
\* session
C14_Witness ==
    /\ reply.op = "get"
    /\ reply.code = 404
    /\ reply.id \in sessions
    /\ IsClosed(reply.id)
    /\ mu # "cleanup"

\* the step is the return of Pool.Create with session s
CreateReturns(s) == crpc[s] = "made" /\ crpc'[s] = "done"

\* C15: when Pool.Create returns the session with id s, a Pool.Get(s) issued right
\* then finds that session: the id is mapped and the session is not closed.
C15_CreateThenGet ==
    [][\A s \in Ids : CreateReturns(s) => (s \in sessions' /\ ~IsClosed(s)')]_vars

\* C16: when Session.Resize fails on a session that GET /pty/{id} reports (mapped
\* and not closed), the session stays so and its recorded size is the previous one:
\* Cols and Rows are as before the call.
C16_FailedResizeKeepsSize ==
    [][(ResizeReturnsError /\ Found(usess)) =>
          /\ Found(usess)'
          /\ Cols'[usess] = Cols[usess]
          /\ Rows'[usess] = Rows[usess]]_vars

\* the step is the end of a broadcastToClients of pump g of session s
BroadcastEnds(s, g) == ppc[s][g] = "write" /\ ppc'[s][g] = "wait"

\* C17: a broadcast with failed writes closes the sockets of the failed clients only;
\* it does not close the session and removes no client from the map, so the others
\* are in the snapshot of the next chunk; and a client whose socket was closed is
\* eventually removed from the map by its own handler.
C17_WriteFailureIsLocal ==
    /\ [][\A s \in Ids, g \in Gens :
             BroadcastEnds(s, g) =>
                 /\ doneClosed' = doneClosed
                 /\ clients' = clients
                 /\ \A c \in Conns : sock'[c] # sock[c] => c \in pfailed[s][g]]_vars
    /\ \A c \in Conns :
           (cpc[c] = "loop" /\ sock[c] = "closed") ~> (c \notin clients[csess[c]])

\* C17 witness: a pump has closed the socket of a failed client, whose handler has
\* not yet cleaned up, while the session is open and another client is attached
C17_Witness ==
    \E s \in Ids, c, d \in Conns :
        /\ ~IsClosed(s)
        /\ {c, d} \subseteq clients[s]
        /\ cpc[c] = "loop" /\ sock[c] = "closed"
        /\ sock[d] = "open"

\* task g of session s, if it was ever started, has returned
ReaderGone(s, g) == rpc[s][g] # "read"
PumpGone(s, g) == ppc[s][g] \notin {"wait", "write"}

\* C18: the teardown of Close / CloseWithTmux (also from the reader's read-error
\* path) leaves the session closed and every socket of its client map closed, and
\* once a session has been closed every reader and every pump ever started for it
\* eventually returns.
C18_TasksTerminate ==
    /\ [][\A s \in Ids :
             TeardownRuns(s) =>
                 /\ IsClosed(s)'
                 /\ \A c \in clients[s] : sock'[c] = "closed"]_vars
    /\ \A s \in Ids :
           (doneClosed[s] # {}) ~> (\A g \in Gens : ReaderGone(s, g) /\ PumpGone(s, g))

(***************************************************************************)
(* Lock level.  Each task runs one operation of the program as the         *)
(* sequence of lock instructions the code executes for one session:        *)
(* "lock"/"unlock" (Lock/Unlock), "rlock"/"runlock" (RLock/RUnlock) on     *)
(* Pool.mu and Session.clientsMu, and "do"/"done" for closeOnce.Do(f):     *)
(* "do" returns at once when the Once has run, else takes the Once's       *)
(* mutex; "done" sets the flag and releases it.  System calls made while   *)
(* a lock is held (kill, wait, close, a socket write) return.  "read" and  *)
(* "write" are the accesses to the fields Session.clientsMu guards (the    *)
(* client map with connectedClientId, DisconnectedAt, LastActivityAt); the *)
(* second component of such an instruction names the field.                *)
(***************************************************************************)
I(kind, lock) == [kind |-> kind, lock |-> lock]

\* Session.Close / CloseWithTmux: closeOnce.Do, with clientsMu.Lock inside
CloseScript ==
    <<I("do", "closeOnce"), I("lock", "clientsMu"), I("write", "clients"),
      I("unlock", "clientsMu"), I("done", "closeOnce")>>

\* ClientCount, GetLastActivity, ConnectedClientID, the snapshot of the pump
ReadClients == <<I("rlock", "clientsMu"), I("read", "clients"), I("runlock", "clientsMu")>>

\* AddClient, RemoveClient, DisconnectAllClients
WriteClients == <<I("lock", "clientsMu"), I("write", "clients"), I("unlock", "clientsMu")>>

\* Pool.Get
GetScript == <<I("rlock", "mu"), I("runlock", "mu")>>

LockScript(t) ==
    CASE t = "cleanup" ->
           <<I("lock", "mu"), I("read", "DisconnectedAt")>> \o ReadClients
           \o <<I("read", "DisconnectedAt")>> \o CloseScript \o <<I("unlock", "mu")>>
      [] t = "tmuxCleanup" ->
           <<I("rlock", "mu")>> \o ReadClients \o ReadClients \o <<I("runlock", "mu")>>
           \o <<I("lock", "mu")>> \o CloseScript \o <<I("unlock", "mu")>>
      [] t \in {"remove", "closeAll"} ->
           <<I("lock", "mu")>> \o CloseScript \o <<I("unlock", "mu")>>
      [] t = "create" -> <<I("lock", "mu"), I("unlock", "mu")>>
      [] t = "connect" -> GetScript \o WriteClients \o WriteClients
      [] t = "takeover" -> GetScript \o WriteClients
      [] t = "reader" -> CloseScript
      [] t = "pump" -> ReadClients

\* an operation that asks for the pool lock while holding the session lock
ScriptNested(t) ==
    IF t = "connect"
    THEN <<I("lock", "clientsMu")>> \o GetScript \o <<I("unlock", "clientsMu")>>
    ELSE LockScript(t)

Script(t) == LockScript(t)

Instr(t) == Script(t)[lpc[t]]

Held(l) == (IF lockW[l] = NoTask THEN {} ELSE {lockW[l]}) \cup lockR[l]

\* a task that has called Lock and is kept out by the holders
PendingWriters(l) ==
    {u \in Tasks : /\ lpc[u] > 0
                   /\ Instr(u).kind = "lock"
                   /\ Instr(u).lock = l
                   /\ Held(l) # {}}

\* the tasks whose progress the next instruction of t waits for
Blockers(t) ==
    IF lpc[t] = 0 THEN {}
    ELSE LET i == Instr(t) IN
         CASE i.kind = "lock" -> Held(i.lock)
           [] i.kind = "rlock" ->
                (IF lockW[i.lock] = NoTask THEN {} ELSE {lockW[i.lock]})
                \cup (PendingWriters(i.lock) \ {t})
           [] i.kind = "do" -> IF onceDone THEN {} ELSE Held(i.lock)
           [] OTHER -> {}

\* the index after the "done" that closes the "do" at index k
AfterDone(t, k) ==
    1 + CHOOSE j \in (k + 1)..Len(Script(t)) :
            /\ Script(t)[j].kind = "done"
            /\ \A m \in (k + 1)..(j - 1) : Script(t)[m].kind # "done"

Advance(t, k) == IF k > Len(Script(t)) THEN 0 ELSE k

LockBegin(t) ==
    /\ Running
    /\ lpc[t] = 0
    /\ lpc' = [lpc EXCEPT ![t] = 1]
    /\ UNCHANGED <<modelVars, lockW, lockR, onceDone>>

LockStep(t) ==
    /\ Running
    /\ lpc[t] > 0
    /\ Blockers(t) = {}
    /\ LET i == Instr(t)
           l == i.lock
       IN  /\ CASE i.kind = "lock" ->
                     /\ lockW' = [lockW EXCEPT ![l] = t]
                     /\ UNCHANGED <<lockR, onceDone>>
                [] i.kind = "unlock" ->
                     /\ lockW' = [lockW EXCEPT ![l] = NoTask]
                     /\ UNCHANGED <<lockR, onceDone>>
                [] i.kind = "rlock" ->
                     /\ lockR' = [lockR EXCEPT ![l] = @ \cup {t}]
                     /\ UNCHANGED <<lockW, onceDone>>
                [] i.kind = "runlock" ->
                     /\ lockR' = [lockR EXCEPT ![l] = @ \ {t}]
                     /\ UNCHANGED <<lockW, onceDone>>
                [] i.kind = "do" ->
                     /\ lockW' = IF onceDone THEN lockW ELSE [lockW EXCEPT ![l] = t]
                     /\ UNCHANGED <<lockR, onceDone>>
                [] i.kind = "done" ->
                     /\ lockW' = [lockW EXCEPT ![l] = NoTask]
                     /\ onceDone' = TRUE
                     /\ UNCHANGED lockR
                [] i.kind \in {"read", "write"} ->
                     UNCHANGED <<lockW, lockR, onceDone>>
           /\ lpc' = [lpc EXCEPT ![t] =
                        IF i.kind = "do" /\ onceDone
                        THEN Advance(t, AfterDone(t, lpc[t]))
                        ELSE Advance(t, lpc[t] + 1)]
    /\ UNCHANGED modelVars

NextLocks ==
    \/ \E t \in Tasks : LockBegin(t)
    \/ \E t \in Tasks : LockStep(t)

SpecLocks == Init /\ [][NextLocks]_vars

\* the largest set of waiting tasks each of which waits only for tasks of the set:
\* from the waiting tasks, drop those that wait for a task outside, until none is left
RECURSIVE Deadlocked(_)
Deadlocked(B) ==
    LET keep == {t \in B : Blockers(t) \subseteq B}
    IN  IF keep = B THEN B ELSE Deadlocked(keep)

\* C19: the system is deadlock-free: in no reachable state of the lock-level
\* interleaving of Create, Get, Remove, CloseAll, the two sweepers, the client
\* operations, takeover, the reader's Close and the pump is there a set of tasks
\* that wait on the pool lock, the session lock or the close guard for each other.
C19_DeadlockFree == Deadlocked({t \in Tasks : Blockers(t) # {}}) = {}

\* the idle sweeper holds the pool lock and runs the teardown while the reader waits
\* for the close guard, the pump for the session lock and Create for the pool lock
C19_Witness ==
    /\ lockW["mu"] = "cleanup"
    /\ lockW["closeOnce"] = "cleanup"
    /\ lockW["clientsMu"] = "cleanup"
    /\ "cleanup" \in Blockers("reader")
    /\ "cleanup" \in Blockers("pump")
    /\ "cleanup" \in Blockers("create")

LiveReaders(s) == {g \in Gens : rpc[s][g] = "read"}

LivePumps(s) == {g \in Gens : ppc[s][g] \in {"wait", "write"}}

\* C20: at every instant a session has at most one live PTY reader task and at
\* most one live broadcast pump task, also right after ReplacePTY started a new pair.
C20_OneReaderOnePump ==
    \A s \in Ids : Cardinality(LiveReaders(s)) <= 1 /\ Cardinality(LivePumps(s)) <= 1

\* the step is the successful return of Pool.ReattachTmux on session s
ReattachReturns(s) == apc = "renewed" /\ apc' = "idle" /\ asess = s

\* the step is the exit of a reader of s that an earlier ReplacePTY left behind
OldReaderExits(s, g) == g < gen[s] /\ rpc[s][g] = "read" /\ rpc'[s][g] = "exit"

\* C21: when Pool.ReattachTmux returns success the session holds the new backend, is
\* not closed, keeps its clients and has a running reader and pump on the new
\* backend; and the exit of the old reader closes neither the session, nor a client,
\* nor the new backend.
C21_ReattachKeepsSession ==
    [][\A s \in Ids :
          /\ ReattachReturns(s) =>
                 /\ CurPTY(s)' = gen[s]
                 /\ ptyState'[s][gen[s]] # "none"
                 /\ ~IsClosed(s)'
                 /\ clients'[s] = clients[s]
                 /\ rpc'[s][gen'[s]] = "read" /\ rpty'[s][gen'[s]] = gen'[s]
                 /\ ppc'[s][gen'[s]] = "wait"
          /\ \A g \in Gens :
                 OldReaderExits(s, g) =>
                     /\ IsClosed(s)' <=> IsClosed(s)
                     /\ clients'[s] = clients[s]
                     /\ sock' = sock
                     /\ ptyState'[s][gen[s]] = ptyState[s][gen[s]]]_vars

\* Pool.ReattachTmux on s is between its IsClosed check and the end of ReplacePTY
ReattachInProgress(s) == asess = s /\ apc \in {"checked", "attached", "swapped", "renewed"}

\* the step is one of the two halves of ReplacePTY on s
ReplacePTYRuns(s) == asess = s /\ apc \in {"attached", "swapped", "renewed"} /\ apc' # apc

\* C22: ReplacePTY runs only on a multiplexed session that is not closed, and between
\* the IsClosed check of ReattachTmux and the end of ReplacePTY no teardown (Close,
\* CloseWithTmux, the reader's error path, a sweeper) and no tmux kill runs on the
\* same session.
C22_ReplaceSerialized ==
    [][\A s \in Ids :
          /\ ReplacePTYRuns(s) => (TmuxEnabled /\ ~IsClosed(s))
          /\ ReattachInProgress(s) => (~TeardownRuns(s) /\ ~OrphanReaperKills(s))]_vars

\* the step is the orphan reaper's tmux.GetSessionClientCount on the untracked tmux
\* session n
OrphanReaperQueries(n) == tpc = "scan" /\ n \in tList /\ n \notin tList' /\ n \notin sessions

\* the step runs while a sweeper holds Pool.mu: the idle reaper from p.mu.Lock() to
\* the deferred Unlock, the orphan reaper during its scan (RLock) and around
\* s.Close() and delete (Lock)
SweeperHoldsPoolLock == mu \in {"cleanup", "tmux"} \/ (tpc = "drop" /\ tpc' = "kill")

\* C23: no sweeper holds the pool lock while it closes or destroys a session's
\* backend or queries or kills a tmux session.
C23_NoSideEffectUnderPoolLock ==
    [][\A s \in Ids :
          (\/ IdleReaperDestroys(s)
           \/ OrphanReaperCloses(s)
           \/ OrphanReaperKills(s)
           \/ OrphanReaperQueries(s)) => ~SweeperHoldsPoolLock]_vars

\* the step is a read of reader g of session s that returned a chunk
ReaderGetsChunk(s, g) == rpc[s][g] = "read" /\ nextChunk'[s] = nextChunk[s] + 1

\* reader g of session s is in Read on an open PTY that has a chunk for it
ReaderHasInput(s, g) ==
    rpc[s][g] = "read" /\ ptyState[s][rpty[s][g]] = "open" /\ nextChunk[s] <= MaxChunks

OrphanReaperMarks(s) == tpc = "scan" /\ s \in sessions /\ s \in killed' /\ s \notin killed

\* C25: the orphan reaper selects the tmux session of a tracked, open session for the
\* kill only if the session has zero clients and has had none for longer than
\* MaxInactive; a session whose last client detached MaxInactive ago or less is not
\* selected.
C25_KillsOnlyLongUnattached ==
    [][\A s \in Ids :
          (OrphanReaperMarks(s) /\ ~IsClosed(s)) =>
              /\ ClientCount(s) = 0
              /\ zeroSince[s] # Nil
              /\ now - zeroSince[s] > MaxInactive]_vars

\* C26: while the client count of a session stays zero, a DisconnectedAt that is set
\* keeps its value, and the client map and connectedClientId do not change: in
\* particular a RemoveClient for a socket that is no longer in the map moves none of
\* them.
C26_DisconnectedAtStable ==
    [][\A s \in Made :
          (clients[s] = {} /\ clients'[s] = {} /\ DisconnectedAt[s] # Nil) =>
              /\ DisconnectedAt'[s] = DisconnectedAt[s]
              /\ connectedClientId'[s] = connectedClientId[s]]_vars

\* C27: after any sequence of AddClient, RemoveClient and DisconnectAllClients,
\* connectedClientId is empty exactly when no client is attached: IsOccupied() is
\* true if and only if ClientCount() > 0.
C27_OccupiedIffClients ==
    \A s \in Made : IsOccupied(s) <=> ClientCount(s) > 0

\* C28: in every reachable state of every session, a non-empty connectedClientId
\* implies a non-empty client map.
C28_IdImpliesClient ==
    \A s \in Ids : connectedClientId[s] # NoClient => clients[s] # {}

\* C28 witness: a client has been removed from a session that another, later client
\* is still attached to, and that client's id is the connectedClientId
C28_Witness ==
    \E s \in Ids, c, d \in Conns :
        /\ cpc[c] = "done" /\ csess[c] = s
        /\ d \in clients[s]
        /\ connectedClientId[s] = d

\* the next instruction of task t is an access to a field clientsMu guards
Accessing(t) == lpc[t] > 0 /\ Instr(t).kind \in {"read", "write"}

\* task t holds clientsMu as the access needs it: for writing, or at least for reading
HoldsClientsMu(t, kind) ==
    \/ lockW["clientsMu"] = t
    \/ kind = "read" /\ t \in lockR["clientsMu"]

\* C29: every read and every write of the client map, connectedClientId,
\* DisconnectedAt and LastActivityAt is made by a task that holds the session's lock,
\* for reading or for writing as the access requires.
C29_FieldsUnderClientsMu ==
    \A t \in Tasks : Accessing(t) => HoldsClientsMu(t, Instr(t).kind)

\* C30: no interleaving of Close, CloseWithTmux, the reader's read-error path and
\* ReplacePTY closes a done channel that is closed already: the process never panics
\* on close(s.done).
C30_NoDoubleClose == ~panicked

\* ---------------------------------------------------------------- one writer per connection
\* Session.broadcastToClients: client.WriteMessage(BinaryMessage, data) on client c of
\* the snapshot is entered; the pump holds no lock here
PumpWriteBegin(s, g, c) ==
    /\ Running
    /\ ppc[s][g] = "write"
    /\ c \in ptodo[s][g]
    /\ pwriting[s][g] = NoClient
    /\ pwriting' = [pwriting EXCEPT ![s][g] = c]
    /\ UNCHANGED <<TmuxEnabled, spc, resizeVars, panicked, lockVars, restVars, now, poolVars, clientVars,
                   lifeVars, chunkVars, readerVars, pumpVars, connVars, sock, sent,
                   takeoverVars, reattachVars, cleanupVars, tmuxCleanupVars>>

\* Session.broadcastToClients: the WriteMessage returns, with or without an error
PumpWriteEnd(s, g) ==
    /\ Running
    /\ pwriting[s][g] # NoClient
    /\ WriteLoopStep(s, g, pwriting[s][g])
    /\ pwriting' = [pwriting EXCEPT ![s][g] = NoClient]
    /\ UNCHANGED <<TmuxEnabled, spc, resizeVars, panicked, lockVars, restVars, now, poolVars, clientVars,
                   lifeVars, chunkVars, readerVars, ppc, pwatch, pchunk, psnap, connVars,
                   sock, takeoverVars, reattachVars, cleanupVars, tmuxCleanupVars>>

\* one session's pump, with each WriteMessage taking time, against the connections
\* and the takeover
NextWriters ==
    \/ \E s \in Ids : CreateSpawn(s) \/ CreateAttach(s) \/ CreateInsert(s)
    \/ ConnStep
    \/ TakeoverStep
    \/ \E s \in Ids, g \in Gens : ReaderRead(s, g) \/ ReaderErr(s, g)
    \/ \E s \in Ids, g \in Gens : PumpTake(s, g) \/ PumpFinish(s, g) \/ PumpExit(s, g)
    \/ \E s \in Ids, g \in Gens, c \in Conns : PumpWriteBegin(s, g, c)
    \/ \E s \in Ids, g \in Gens : PumpWriteEnd(s, g)

SpecWriters == Init /\ [][NextWriters]_vars

\* the step is DisconnectAllClients on session s writing its close frame to
\* connection c (conn.WriteMessage(CloseMessage, ...) on every connection of the map)
DisconnectAllWrites(s, c) == kpc = "got" /\ kpc' = "reply" /\ ksess = s /\ c \in clients[s]

\* a pump of session s is inside WriteMessage on connection c, whose socket is open
PumpIsWriting(s, c) == sock[c] = "open" /\ \E g \in Gens : pwriting[s][g] = c

\* C31: at most one task writes to a WebSocket connection at any instant:
\* DisconnectAllClients never writes its close frame to a connection while the
\* broadcast pump is inside its data write to the same connection.
C31_OneWriterPerConn ==
    [][\A s \in Ids, c \in Conns : DisconnectAllWrites(s, c) => ~PumpIsWriting(s, c)]_vars

\* no connection has ever been added to session s (AddClient has not run on it)
NeverAttached(s) == \A c \in Conns : ~(csess[c] = s /\ cpc[c] \in {"loop", "done"})

\* session s has been without a client for longer than SessionTimeout
IdleTooLong(s) == zeroSince[s] # Nil /\ ClientCount(s) = 0 /\ now - zeroSince[s] > SessionTimeout

\* C32: under fair ticking of the idle reaper, a session of the pool that was created,
\* never had a client attached and has existed without clients for longer than
\* SessionTimeout is eventually removed from the pool (or gets a client).
C32_NeverAttachedReaped ==
    \A s \in Ids :
        (s \in sessions /\ NeverAttached(s) /\ IdleTooLong(s))
            ~> (s \notin sessions \/ ClientCount(s) > 0 \/ ~Running)

\* the step is the orphan reaper's tmux.KillSession on the existing tmux session n
ReaperKillsTmux(n) == tpc = "kill" /\ tpc' = "drop" /\ tCur' = n /\ n \in tmuxLive

\* Pool.Create on id s has made the detached tmux session and has not inserted the
\* session into the mapping yet
Creating(s) == TmuxEnabled /\ crpc[s] \in {"spawned", "made"}

\* C33: the orphan reaper never kills the tmux session of a session that Pool.Create
\* has spawned and not yet inserted, and every session Create inserts and returns in
\* tmux mode has its tmux session.
C33_ReaperSparesCreating ==
    [][\A s \in Ids :
          /\ ReaperKillsTmux(s) => ~Creating(s)
          /\ (CreateReturns(s) /\ TmuxEnabled) => SessionExists(s)]_vars

\* ---------------------------------------------------------------- main, shutdown sequence
\* a request handler is running inside Pool.Create (POST /pty)
CreateInFlight == \E s \in Ids : crpc[s] \in {"spawned", "made"}

\* SIGINT or SIGTERM has arrived: cancel() of the pool context
ShutdownCancel ==
    /\ Running
    /\ spc = "serving"
    /\ spc' = "cancelled"
    /\ UNCHANGED <<TmuxEnabled, pwriting, resizeVars, panicked, lockVars, restVars, now, poolVars,
                   clientVars, lifeVars, chunkVars, readerVars, pumpVars, connVars, sock,
                   sent, takeoverVars, reattachVars, cleanupVars, tmuxCleanupVars>>

\* pool.CloseAll(): every session of the mapping is closed with its tmux session and
\* deleted, under the write lock
ShutdownCloseAll ==
    /\ Running
    /\ spc = "cancelled"
    /\ mu = "free"
    /\ CloseWithTmux(sessions)
    /\ sessions' = IF Panics(sessions) THEN sessions ELSE {}
    /\ spc' = IF Panics(sessions) THEN spc ELSE "closed"
    /\ UNCHANGED <<TmuxEnabled, pwriting, resizeVars, lockVars, restVars, now, mu, crpc, chunkVars,
                   readerVars, pumpVars, connVars, sent, takeoverVars, reattachVars,
                   cleanupVars, tmuxCleanupVars>>

\* server.Shutdown(ctx) returns once the requests in flight have been served, and
\* main returns
ShutdownServer ==
    /\ Running
    /\ spc = "closed"
    /\ ~CreateInFlight
    /\ spc' = "down"
    /\ UNCHANGED <<TmuxEnabled, pwriting, resizeVars, panicked, lockVars, restVars, now, poolVars,
                   clientVars, lifeVars, chunkVars, readerVars, pumpVars, connVars, sock,
                   sent, takeoverVars, reattachVars, cleanupVars, tmuxCleanupVars>>

\* the server with its connections and readers, and the shutdown sequence at any time
NextShutdown ==
    \/ \E s \in Ids : CreateSpawn(s) \/ CreateAttach(s) \/ CreateInsert(s)
    \/ ConnStep
    \/ \E s \in Ids, g \in Gens : ReaderErr(s, g)
    \/ ShutdownCancel
    \/ ShutdownCloseAll
    \/ ShutdownServer

SpecShutdown == Init /\ [][NextShutdown]_vars

\* the backend of session s is destroyed: no attachment is open and, in tmux mode, the
\* tmux session is gone
BackendDestroyed(s) ==
    /\ \A g \in Gens : ptyState[s][g] # "open"
    /\ TmuxEnabled => ~SessionExists(s)

\* C34: when the shutdown sequence (cancel, Pool.CloseAll, server.Shutdown) has
\* completed, the pool mapping is empty and every session NewSession ever returned is
\* closed with its backend destroyed, also when a POST /pty was being served while
\* CloseAll ran.
C34_ShutdownClosesAll ==
    spc = "down" => (sessions = {} /\ \A s \in Made : IsClosed(s) /\ BackendDestroyed(s))

\* ---------------------------------------------------------------- concurrent Session.Resize
\* Handler.updateSession: Pool.Get succeeds and sess.Resize(cols, rows) is called
ResizeCall(r, s, cols, rows) ==
    /\ Running
    /\ zpc[r] = "idle"
    /\ Get(s)
    /\ zpc' = [zpc EXCEPT ![r] = "cols"]
    /\ zarg' = [zarg EXCEPT ![r] = [sess |-> s, cols |-> cols, rows |-> rows]]
    /\ UNCHANGED <<TmuxEnabled, pwriting, spc, win, panicked, lockVars, restVars, now,
                   poolVars, clientVars, lifeVars, chunkVars, readerVars, pumpVars,
                   connVars, sock, sent, takeoverVars, reattachVars, cleanupVars,
                   tmuxCleanupVars>>

\* Session.Resize: s.Cols = cols, without a lock
ResizeCols(r) ==
    /\ Running
    /\ zpc[r] = "cols"
    /\ Cols' = [Cols EXCEPT ![zarg[r].sess] = zarg[r].cols]
    /\ zpc' = [zpc EXCEPT ![r] = "rows"]
    /\ UNCHANGED <<TmuxEnabled, pwriting, spc, zarg, win, panicked, lockVars, Rows, upc,
                   usess, reply, absent, now, poolVars, clientVars, lifeVars, chunkVars,
                   readerVars, pumpVars, connVars, sock, sent, takeoverVars, reattachVars,
                   cleanupVars, tmuxCleanupVars>>

\* Session.Resize: s.Rows = rows, without a lock
ResizeRows(r) ==
    /\ Running
    /\ zpc[r] = "rows"
    /\ Rows' = [Rows EXCEPT ![zarg[r].sess] = zarg[r].rows]
    /\ zpc' = [zpc EXCEPT ![r] = "apply"]
    /\ UNCHANGED <<TmuxEnabled, pwriting, spc, zarg, win, panicked, lockVars, Cols, upc,
                   usess, reply, absent, now, poolVars, clientVars, lifeVars, chunkVars,
                   readerVars, pumpVars, connVars, sock, sent, takeoverVars, reattachVars,
                   cleanupVars, tmuxCleanupVars>>

\* Session.Resize: return s.PTY.Resize(cols, rows); pty.Setsize sets the window size
\* of an open PTY and fails on a closed one
ResizeApply(r) ==
    /\ Running
    /\ zpc[r] = "apply"
    /\ win' = IF ResizeFails(zarg[r].sess) THEN win
              ELSE [win EXCEPT ![zarg[r].sess] = [cols |-> zarg[r].cols, rows |-> zarg[r].rows]]
    /\ zpc' = [zpc EXCEPT ![r] = "idle"]
    /\ UNCHANGED <<TmuxEnabled, pwriting, spc, zarg, panicked, lockVars, restVars, now,
                   poolVars, clientVars, lifeVars, chunkVars, readerVars, pumpVars,
                   connVars, sock, sent, takeoverVars, reattachVars, cleanupVars,
                   tmuxCleanupVars>>

\* updateSession requests served concurrently on a session whose PTY stays open
NextResize ==
    \/ \E s \in Ids : CreateSpawn(s) \/ CreateAttach(s) \/ CreateInsert(s)
    \/ \E r \in Resizers, s \in Ids, cols, rows \in Dims : ResizeCall(r, s, cols, rows)
    \/ \E r \in Resizers : ResizeCols(r) \/ ResizeRows(r) \/ ResizeApply(r)

SpecResize == Init /\ [][NextResize]_vars

\* no Session.Resize call is in progress
ResizeQuiet == \A r \in Resizers : zpc[r] = "idle"

\* C35: whenever no Session.Resize call is in progress on a session with an open PTY
\* (so that every call made has returned without error), the session's Cols and Rows
\* equal the window size last set on the PTY.
C35_SizeMatchesBackend ==
    ResizeQuiet =>
        \A s \in Made : ~ResizeFails(s) => (Cols[s] = win[s].cols /\ Rows[s] = win[s].rows)

\* ---------------------------------------------------------------- Pool.Create, failures
\* Pool.Create returns the error of the first step: pty.Spawn does not find the
\* command or cannot start it, or `tmux new-session -d` fails; nothing has been made
CreateSpawnFail(s) ==
    /\ Running
    /\ crpc[s] = "none"
    /\ crpc' = [crpc EXCEPT ![s] = "failed"]
    /\ UNCHANGED <<TmuxEnabled, fineVars, panicked, lockVars, restVars, now, sessions, mu,
                   clientVars, lifeVars, chunkVars, readerVars, pumpVars, connVars, sock,
                   sent, takeoverVars, reattachVars, cleanupVars, tmuxCleanupVars>>

\* tmux.AttachSession finds the tmux session but pty.StartWithSize fails (no PTY or
\* no process to be had): SpawnSession, SpawnWithTmux and Pool.Create return the error
CreateAttachFail(s) ==
    /\ Running
    /\ crpc[s] = "spawned"
    /\ SessionExists(s)
    /\ crpc' = [crpc EXCEPT ![s] = "failed"]
    /\ UNCHANGED <<TmuxEnabled, fineVars, panicked, lockVars, restVars, now, sessions, mu,
                   clientVars, lifeVars, chunkVars, readerVars, pumpVars, connVars, sock,
                   sent, takeoverVars, reattachVars, cleanupVars, tmuxCleanupVars>>

\* Pool.Create with its error paths, against connections, the clock and the orphan
\* reaper
NextCreate ==
    \/ \E s \in Ids : CreateSpawn(s) \/ CreateAttach(s) \/ CreateInsert(s)
    \/ \E s \in Ids : CreateSpawnFail(s) \/ CreateAttachFail(s)
    \/ ConnStep
    \/ Tick
    \/ TmuxList
    \/ TmuxRLock
    \/ \E n \in Ids : TmuxScan(n) \/ TmuxKill(n)
    \/ TmuxRUnlock
    \/ TmuxDrop
    \/ TmuxEnd

SpecCreate == Init /\ [][NextCreate]_vars

\* the step is Pool.Create on id s returning an error
CreateFails(s) == crpc[s] # "failed" /\ crpc'[s] = "failed"

\* C36: when Pool.Create returns an error the pool mapping is unchanged and nothing
\* made for the call survives: the id is not mapped, no PTY of it is open and, in tmux
\* mode, no tmux session named by the id exists.
C36_FailedCreateLeavesNothing ==
    [][\A s \in Ids :
          CreateFails(s) =>
              /\ sessions' = sessions
              /\ s \notin sessions'
              /\ \A g \in Gens : ptyState'[s][g] # "open"
              /\ ~SessionExists(s)']_vars

====
